---- MODULE Spec2Model ----
(***************************************************************************)
(* Model of the GitHub repository bootstrap scripts                        *)
(*   create_github_public_repo_httpx.py     (variant "httpx")              *)
(*   create_github_public_repo_requests.py  (variant "requests")           *)
(*   create_gitignore.py                    (helper run by "requests")     *)
(* The working directory, the remote host, the local git repository and    *)
(* the position of the script are the state; every prompt, HTTP request    *)
(* and external command is an input drawn from a small set.                *)
(***************************************************************************)
EXTENDS Integers, Sequences, FiniteSets

VARIABLES
    variant,          \* which script runs: "httpx" or "requests"
    token,            \* value of the GITHUB_TOKEN environment variable
    templatePresent,  \* .gitignore_template exists beside the script (httpx)
    helperPresent,    \* create_gitignore.py exists beside the script (requests)
    remoteRepos,      \* names of the repositories the remote host already holds
    fs,               \* working directory: entry name -> [kind, data]
    fs0,              \* the working directory as it was when the run started
    pc,               \* position of the script
    exitCode,         \* -1 while running, else the exit code of the process
    github_username,  \* answer to the username prompt
    repo_name,        \* answer to the last name prompt
    repo_description, \* answer to the description prompt
    lastCheck,        \* most recent check_github_repo_exists: "exists", "free", "raised"
    prompts,          \* number of name prompts answered so far
    getCount,         \* number of GET requests issued
    posts,            \* the POST requests issued, with their response status
    gitLog,           \* the git commands invoked, with their success
    steps,            \* the workflow steps performed so far, in order
    repo,             \* the local git repository created by git init
    gi,               \* what the last create_gitignore call met and did
    cleanRuns         \* consecutive clean_git_artifacts runs (function-level spec)

vars == <<variant, token, templatePresent, helperPresent, remoteRepos, fs, fs0,
          pc, exitCode, github_username, repo_name, repo_description, lastCheck,
          prompts, getCount, posts, gitLog, steps, repo, gi, cleanRuns>>

(***************************************************************************)
(* Bounds and input sets                                                   *)
(***************************************************************************)
\* How many times the name prompt may be answered in one run.
MaxPrompts == 2

\* How many times in succession clean_git_artifacts is applied (function level).
MaxCleanRuns == 2

Variants == {"httpx", "requests"}

\* os.getenv returns None for an unset variable.
TokenUnset == "<None>"
Tokens == {TokenUnset, "", "ghp_token"}

Usernames == {"alice"}
Names == {"", "demo", "taken"}
Descriptions == {"", "A demo"}
Answers == {"y", "Y", "n", ""}
NoAnswer == "<not asked>"

(***************************************************************************)
(* The working directory.  A name is the sequence of its pieces, split     *)
(* after a leading ".git", so that str.startswith(".git") is computed.     *)
(***************************************************************************)
GIT == <<".git">>
GITIGNORE == <<".git", "ignore">>
GITATTRIBUTES == <<".git", "attributes">>
GITHUB_DIR == <<".git", "hub">>
README == <<"README.md">>
MAIN_PY == <<"main.py">>

Entries == {GIT, GITIGNORE, GITATTRIBUTES, GITHUB_DIR, README, MAIN_PY}

Absent == [kind |-> "none", data |-> <<>>]
Dir == [kind |-> "dir", data |-> <<>>]
File(content) == [kind |-> "file", data |-> content]

\* What each entry can be before the run.
KindsOf(e) ==
    CASE e = GIT -> {"none", "file", "dir"}
      [] e = GITIGNORE -> {"none", "file", "dir"}
      [] e = GITATTRIBUTES -> {"none", "file"}
      [] e = GITHUB_DIR -> {"none", "dir"}
      [] e = README -> {"none", "file"}
      [] OTHER -> {"none", "file"}

Old(e) == <<"old content of">> \o e

Entry(e, k) ==
    CASE k = "none" -> Absent
      [] k = "dir" -> Dir
      [] OTHER -> File(Old(e))

AllFs ==
    { [e \in Entries |-> Entry(e, k[e])] :
        k \in { kk \in [Entries -> {"none", "file", "dir"}] :
                    \A e \in Entries : kk[e] \in KindsOf(e) } }

EmptyDir == [e \in Entries |-> Absent]

\* os.path.exists, os.path.isdir, os.path.isfile
Exists(f, e) == f[e].kind # "none"
IsDir(f, e) == f[e].kind = "dir"
IsFile(f, e) == f[e].kind = "file"

\* str.startswith
StartsWith(item, prefix) == Len(item) >= 1 /\ item[1] = prefix

\* os.listdir
ListDir(f) == {e \in Entries : Exists(f, e)}

\* str.lower, on the answers a prompt can get
Lower(s) == IF s = "Y" THEN "y" ELSE s

(***************************************************************************)
(* Pure helpers of the scripts                                             *)
(***************************************************************************)
\* A bug that tests the token against None only.
TokenMissing_OnlyNone(t) == t = TokenUnset

\* "if not github_token": None and the empty string are both missing.
TokenMissing(t) == t = TokenUnset \/ t = ""

\* check_github_repo_exists: true only on status 200.
CheckGithubRepoExists(status) == status = 200

\* The statuses the lookup endpoint can answer with; 0 stands for a transport
\* failure (the request raises).  200 is answered only for a repository
\* the remote host holds.
GetStatuses(remote, name) ==
    IF name \in remote THEN {200, 403, 0} ELSE {404, 401, 0}

\* The statuses the creation endpoint can answer with: 201 only for a valid
\* name that is not taken; 422 for a taken or invalid name; 401 for a
\* rejected credential; 0 for a transport failure.
PostStatuses(remote, name) ==
    IF name # "" /\ name \notin remote THEN {201, 401, 0} ELSE {422, 401, 0}

\* A bug that asks for a private repository.
PostData_Private(name, description) ==
    [name |-> name, description |-> description, private |-> TRUE]

\* The JSON body of the creation request.
PostData(name, description) ==
    [name |-> name, description |-> description, private |-> FALSE]

\* f"# {repo_name}\n\n{repo_description}"
ReadmeContent(name, description) == <<"# ", name, "\n\n", description>>

\* A bug that builds the HTTPS address instead of the SSH one.
RemoteUrl_Https(username, name) == <<"https://github.com/", username, "/", name, ".git">>

\* f"git@github.com:{github_username}/{repo_name}.git"
RemoteUrl(username, name) == <<"git@github.com:", username, "/", name, ".git">>

\* Content of the .gitignore_template file, and the text embedded in the helper.
TemplateContent == <<"content of .gitignore_template">>
EmbeddedContent == <<"# Python-related", "*.py[cod]", "...", "*.qodo">>
GitignoreSource(v) == IF v = "httpx" THEN TemplateContent ELSE EmbeddedContent

\* A bug that returns after removing the .git directory.
CleanGitArtifacts_EarlyReturn(f) ==
    IF IsDir(f, GIT)
    THEN [f EXCEPT ![GIT] = Absent]
    ELSE [e \in Entries |->
            IF e \in ListDir(f) /\ StartsWith(e, ".git") /\ IsFile(f, e)
            THEN Absent ELSE f[e]]

\* clean_git_artifacts: rmtree(".git") when it is a directory, then remove every
\* regular file of the listing whose name starts with ".git".
CleanGitArtifacts(f) ==
    LET f1 == IF IsDir(f, GIT) THEN [f EXCEPT ![GIT] = Absent] ELSE f
    IN  [e \in Entries |->
            IF e \in ListDir(f1) /\ StartsWith(e, ".git") /\ IsFile(f1, e)
            THEN Absent ELSE f1[e]]

\* One git invocation: the command, whether it exited 0, who ran it.
GitCall(cmd, ok, by) == [cmd |-> cmd, ok |-> ok, by |-> by]

\* The result of a create_gitignore call.
GiResult(f, prompted, raised, wrote, git) ==
    [fs |-> f, prompted |-> prompted, raised |-> raised, wrote |-> wrote, git |-> git]

\* A bug that keeps the file only on an explicit "n".
KeepExisting_OnlyOnNo(answer) == Lower(answer) = "n"

\* "if user_input.lower() != 'y'": keep the existing file.
KeepExisting(answer) == Lower(answer) # "y"

\* create_gitignore.py: writes the embedded text, then runs git add, git commit
\* and git push without looking at their exit codes.  open(path, "w") on a
\* directory raises, and the helper ends with a non-zero exit code.
HelperCreateGitignore(f, gitRes) ==
    IF IsDir(f, GITIGNORE)
    THEN GiResult(f, FALSE, TRUE, FALSE, <<>>)
    ELSE GiResult([f EXCEPT ![GITIGNORE] = File(EmbeddedContent)], FALSE, FALSE, TRUE,
                  << GitCall("add .gitignore", gitRes[1], "helper"),
                     GitCall("commit", gitRes[2], "helper"),
                     GitCall("push", gitRes[3], "helper") >>)

\* create_gitignore of the httpx variant.
CreateGitignoreHttpx(f, answer, tmpl) ==
    IF Exists(f, GITIGNORE) /\ KeepExisting(answer)
    THEN GiResult(f, TRUE, FALSE, FALSE, <<>>)
    ELSE IF ~tmpl
    THEN GiResult(f, Exists(f, GITIGNORE), TRUE, FALSE, <<>>)
    ELSE IF IsDir(f, GITIGNORE)
    THEN GiResult(f, TRUE, TRUE, FALSE, <<>>)
    ELSE GiResult([f EXCEPT ![GITIGNORE] = File(TemplateContent)],
                  Exists(f, GITIGNORE), FALSE, TRUE, <<>>)

\* create_gitignore of the requests variant: the helper script is looked for
\* before the existing file is.
CreateGitignoreRequests(f, answer, helper, gitRes) ==
    IF ~helper
    THEN GiResult(f, FALSE, TRUE, FALSE, <<>>)
    ELSE IF Exists(f, GITIGNORE) /\ KeepExisting(answer)
    THEN GiResult(f, TRUE, FALSE, FALSE, <<>>)
    ELSE LET h == HelperCreateGitignore(f, gitRes)
         IN  [h EXCEPT !.prompted = Exists(f, GITIGNORE)]

CreateGitignore(v, f, answer, tmpl, helper, gitRes) ==
    IF v = "httpx"
    THEN CreateGitignoreHttpx(f, answer, tmpl)
    ELSE CreateGitignoreRequests(f, answer, helper, gitRes)

(***************************************************************************)
(* The run of a script                                                     *)
(***************************************************************************)
\* The repositories the remote host holds when the run starts.
RemoteAtStart == {"taken"}

NoRepo == [exists |-> FALSE, branch |-> "", staged |-> FALSE, commits |-> 0,
           origin |-> <<>>, pushed |-> FALSE]

NoGi == [called |-> FALSE, existed |-> FALSE, before |-> Absent, answer |-> NoAnswer,
         prompted |-> FALSE, raised |-> FALSE, wrote |-> FALSE]

\* The state shared by both specifications before anything ran.
InitCommon ==
    /\ variant \in Variants
    /\ templatePresent \in (IF variant = "httpx" THEN BOOLEAN ELSE {TRUE})
    /\ helperPresent \in (IF variant = "requests" THEN BOOLEAN ELSE {TRUE})
    /\ remoteRepos = RemoteAtStart
    /\ fs \in AllFs
    /\ fs0 = fs
    /\ exitCode = -1
    /\ github_username = ""
    /\ repo_name = ""
    /\ repo_description = ""
    /\ lastCheck = "none"
    /\ prompts = 0
    /\ getCount = 0
    /\ posts = <<>>
    /\ gitLog = <<>>
    /\ steps = <<>>
    /\ repo = NoRepo
    /\ gi = NoGi
    /\ cleanRuns = 0

Init ==
    /\ InitCommon
    /\ token \in Tokens
    /\ pc = "PromptCredentials"

\* The workflow step is recorded once, however often the name loop repeats it.
Log(s) == IF steps # <<>> /\ steps[Len(steps)] = s THEN steps ELSE Append(steps, s)

\* exit(1), or an exception nobody catches: the interpreter ends with code 1.
Fail == pc' = "Exited" /\ exitCode' = 1

\* A bug that sends the creation request before the cleanup, and runs git init
\* before the README is written in both scripts.
NextPc_CreateBeforeClean(v, at) ==
    CASE at = "PromptDescription" -> "Post"
      [] at = "Post" -> "Clean"
      [] at = "Clean" -> "Gitignore"
      [] at = "Gitignore" -> "GitInit"
      [] at = "GitInit" -> "Readme"
      [] at = "Readme" -> "Checkout"
      [] at = "Checkout" -> "Commit"
      [] at = "Commit" -> "AddRemote"
      [] at = "AddRemote" -> "Push"
      [] OTHER -> "Done"

\* The statement that follows each statement of the main flow when it succeeds.
\* httpx: setup_git_repository writes the README, then runs git init;
\* requests: git init runs first, the README is written after it.
NextPc(v, at) ==
    CASE at = "PromptDescription" -> "Clean"
      [] at = "Clean" -> "Post"
      [] at = "Post" -> "Gitignore"
      [] at = "Gitignore" -> IF v = "httpx" THEN "Readme" ELSE "GitInit"
      [] at = "Readme" -> IF v = "httpx" THEN "GitInit" ELSE "Checkout"
      [] at = "GitInit" -> IF v = "httpx" THEN "Checkout" ELSE "Readme"
      [] at = "Checkout" -> "Commit"
      [] at = "Commit" -> "AddRemote"
      [] at = "AddRemote" -> "Push"
      [] OTHER -> "Done"

\* A bug that leaves the loop when the user wants another name.
RetryTarget_ContinueAnyway(answer) ==
    IF Lower(answer) = "y" THEN "PromptDescription" ELSE "Exited"

\* "Do you want to try a different name?": y goes back to the prompt, anything
\* else exits.
RetryTarget(answer) ==
    IF Lower(answer) # "y" THEN "Exited" ELSE "PromptName"

\* input("Enter your GitHub username: "), os.getenv("GITHUB_TOKEN"), the
\* check of the token.
PromptCredentials ==
    /\ pc = "PromptCredentials"
    /\ \E u \in Usernames : github_username' = u
    /\ steps' = Log("PromptCredentials")
    /\ IF TokenMissing(token) THEN Fail ELSE pc' = "PromptName" /\ exitCode' = exitCode
    /\ UNCHANGED <<variant, token, templatePresent, helperPresent, remoteRepos, fs, fs0,
                   repo_name, repo_description, lastCheck, prompts, getCount, posts,
                   gitLog, repo, gi, cleanRuns>>

\* One pass of the name loop up to the answer of check_github_repo_exists.
CheckNameAvailable ==
    /\ pc = "PromptName"
    /\ prompts < MaxPrompts
    /\ \E name \in Names : \E status \in GetStatuses(remoteRepos, name) :
        /\ repo_name' = name
        /\ IF status = 0
           THEN Fail /\ lastCheck' = "raised"
           ELSE /\ exitCode' = exitCode
                /\ lastCheck' = IF CheckGithubRepoExists(status) THEN "exists" ELSE "free"
                /\ pc' = IF CheckGithubRepoExists(status) THEN "AskRetry"
                         ELSE "PromptDescription"
    /\ prompts' = prompts + 1
    /\ getCount' = getCount + 1
    /\ steps' = Log("CheckNameAvailable")
    /\ UNCHANGED <<variant, token, templatePresent, helperPresent, remoteRepos, fs, fs0,
                   github_username, repo_description, posts, gitLog, repo, gi, cleanRuns>>

\* The name is taken: ask whether to try another one.
AskRetry ==
    /\ pc = "AskRetry"
    /\ \E answer \in Answers :
        /\ pc' = RetryTarget(answer)
        /\ exitCode' = IF RetryTarget(answer) = "Exited" THEN 1 ELSE exitCode
    /\ UNCHANGED <<variant, token, templatePresent, helperPresent, remoteRepos, fs, fs0,
                   github_username, repo_name, repo_description, lastCheck, prompts,
                   getCount, posts, gitLog, steps, repo, gi, cleanRuns>>

\* input("Enter a description for the repository: ")
PromptDescription ==
    /\ pc = "PromptDescription"
    /\ \E d \in Descriptions : repo_description' = d
    /\ pc' = NextPc(variant, "PromptDescription")
    /\ UNCHANGED <<variant, token, templatePresent, helperPresent, remoteRepos, fs, fs0,
                   exitCode, github_username, repo_name, lastCheck, prompts, getCount,
                   posts, gitLog, steps, repo, gi, cleanRuns>>

\* clean_git_artifacts()
CleanLocalArtifacts ==
    /\ pc = "Clean"
    /\ fs' = CleanGitArtifacts(fs)
    /\ steps' = Log("CleanLocalArtifacts")
    /\ pc' = NextPc(variant, "Clean")
    /\ UNCHANGED <<variant, token, templatePresent, helperPresent, remoteRepos, fs0,
                   exitCode, github_username, repo_name, repo_description, lastCheck,
                   prompts, getCount, posts, gitLog, repo, gi, cleanRuns>>

\* The POST to /user/repos and raise_for_status.  A transport failure raises
\* inside the handler too (response is unbound): the process ends with code 1.
CreateRemote ==
    /\ pc = "Post"
    /\ \E status \in PostStatuses(remoteRepos, repo_name) :
        /\ posts' = Append(posts, [data |-> PostData(repo_name, repo_description),
                                   status |-> status])
        /\ IF status = 201
           THEN /\ remoteRepos' = remoteRepos \cup {repo_name}
                /\ pc' = NextPc(variant, "Post")
                /\ exitCode' = exitCode
           ELSE /\ remoteRepos' = remoteRepos
                /\ Fail
    /\ steps' = Log("CreateRemote")
    /\ UNCHANGED <<variant, token, templatePresent, helperPresent, fs, fs0,
                   github_username, repo_name, repo_description, lastCheck, prompts,
                   getCount, gitLog, repo, gi, cleanRuns>>

\* The answers the overwrite prompt can get; none is asked for without a file.
AnswersFor(f) == IF Exists(f, GITIGNORE) THEN Answers ELSE {NoAnswer}

\* What a create_gitignore call leaves in gi.
GiRecord(f, answer, r) ==
    [called |-> TRUE, existed |-> Exists(f, GITIGNORE), before |-> f[GITIGNORE],
     answer |-> answer, prompted |-> r.prompted, raised |-> r.raised, wrote |-> r.wrote]

\* The exit codes the helper's three git commands can have; they are drawn
\* only when the helper gets to run them.
HelperGitResults(v, f, helper) ==
    IF v = "requests" /\ helper /\ ~IsDir(f, GITIGNORE)
    THEN [1..3 -> BOOLEAN] ELSE {[i \in 1..3 |-> TRUE]}

\* try: create_gitignore(project_path)  except Exception: exit(1)
WriteGitignore ==
    /\ pc = "Gitignore"
    /\ \E answer \in AnswersFor(fs), gitRes \in HelperGitResults(variant, fs, helperPresent) :
        LET r == CreateGitignore(variant, fs, answer, templatePresent, helperPresent, gitRes)
        IN  /\ fs' = r.fs
            /\ gi' = GiRecord(fs, answer, r)
            /\ gitLog' = gitLog \o r.git
            /\ IF r.raised THEN Fail
               ELSE pc' = NextPc(variant, "Gitignore") /\ exitCode' = exitCode
    /\ steps' = Log("WriteGitignore")
    /\ UNCHANGED <<variant, token, templatePresent, helperPresent, remoteRepos, fs0,
                   github_username, repo_name, repo_description, lastCheck, prompts,
                   getCount, posts, repo, cleanRuns>>

\* subprocess.run(["git", "init"], check=True)
InitLocalRepo ==
    /\ pc = "GitInit"
    /\ \E ok \in BOOLEAN :
        /\ gitLog' = Append(gitLog, GitCall("init", ok, "main"))
        /\ IF ok
           THEN /\ fs' = [fs EXCEPT ![GIT] = Dir]
                /\ repo' = [NoRepo EXCEPT !.exists = TRUE]
                /\ pc' = NextPc(variant, "GitInit")
                /\ exitCode' = exitCode
           ELSE /\ Fail
                /\ UNCHANGED <<fs, repo>>
    /\ steps' = Log("InitLocalRepo")
    /\ UNCHANGED <<variant, token, templatePresent, helperPresent, remoteRepos, fs0,
                   github_username, repo_name, repo_description, lastCheck, prompts,
                   getCount, posts, gi, cleanRuns>>

\* if not os.path.exists("README.md"): write it
WriteReadme ==
    /\ pc = "Readme"
    /\ fs' = IF ~Exists(fs, README)
             THEN [fs EXCEPT ![README] = File(ReadmeContent(repo_name, repo_description))]
             ELSE fs
    /\ steps' = Log("WriteReadme")
    /\ pc' = NextPc(variant, "Readme")
    /\ UNCHANGED <<variant, token, templatePresent, helperPresent, remoteRepos, fs0,
                   exitCode, github_username, repo_name, repo_description, lastCheck,
                   prompts, getCount, posts, gitLog, repo, gi, cleanRuns>>

\* subprocess.run(["git", "checkout", "-b", "main"], check=True)
CreateBranch ==
    /\ pc = "Checkout"
    /\ \E ok \in BOOLEAN :
        /\ gitLog' = Append(gitLog, GitCall("checkout -b main", ok, "main"))
        /\ IF ok
           THEN /\ repo' = [repo EXCEPT !.branch = "main"]
                /\ pc' = NextPc(variant, "Checkout")
                /\ exitCode' = exitCode
           ELSE Fail /\ repo' = repo
    /\ steps' = Log("CreateBranch")
    /\ UNCHANGED <<variant, token, templatePresent, helperPresent, remoteRepos, fs, fs0,
                   github_username, repo_name, repo_description, lastCheck, prompts,
                   getCount, posts, gi, cleanRuns>>

\* git add . and git commit -m "Initial commit" in one try block: the commit
\* is not run when the add fails.
Commit ==
    /\ pc = "Commit"
    /\ \E addOk \in BOOLEAN, commitOk \in BOOLEAN :
        IF ~addOk
        THEN /\ commitOk
             /\ gitLog' = Append(gitLog, GitCall("add .", FALSE, "main"))
             /\ Fail /\ repo' = repo
        ELSE /\ gitLog' = gitLog \o << GitCall("add .", TRUE, "main"),
                                       GitCall("commit", commitOk, "main") >>
             /\ IF commitOk
                THEN /\ repo' = [repo EXCEPT !.staged = TRUE, !.commits = @ + 1]
                     /\ pc' = NextPc(variant, "Commit")
                     /\ exitCode' = exitCode
                ELSE Fail /\ repo' = [repo EXCEPT !.staged = TRUE]
    /\ steps' = Log("Commit")
    /\ UNCHANGED <<variant, token, templatePresent, helperPresent, remoteRepos, fs, fs0,
                   github_username, repo_name, repo_description, lastCheck, prompts,
                   getCount, posts, gi, cleanRuns>>

\* subprocess.run(["git", "remote", "add", "origin", remote_url], check=True)
AddRemote ==
    /\ pc = "AddRemote"
    /\ \E ok \in BOOLEAN :
        /\ gitLog' = Append(gitLog, GitCall("remote add origin", ok, "main"))
        /\ IF ok
           THEN /\ repo' = [repo EXCEPT !.origin = RemoteUrl(github_username, repo_name)]
                /\ pc' = NextPc(variant, "AddRemote")
                /\ exitCode' = exitCode
           ELSE Fail /\ repo' = repo
    /\ steps' = Log("AddRemote")
    /\ UNCHANGED <<variant, token, templatePresent, helperPresent, remoteRepos, fs, fs0,
                   github_username, repo_name, repo_description, lastCheck, prompts,
                   getCount, posts, gi, cleanRuns>>

\* subprocess.run(["git", "push", "-u", "origin", "main"], check=True); the
\* script ends after it, with code 0.
Push ==
    /\ pc = "Push"
    /\ \E ok \in BOOLEAN :
        /\ gitLog' = Append(gitLog, GitCall("push -u origin main", ok, "main"))
        /\ IF ok
           THEN /\ repo' = [repo EXCEPT !.pushed = TRUE]
                /\ pc' = NextPc(variant, "Push")
                /\ exitCode' = 0
           ELSE Fail /\ repo' = repo
    /\ steps' = Log("Push")
    /\ UNCHANGED <<variant, token, templatePresent, helperPresent, remoteRepos, fs, fs0,
                   github_username, repo_name, repo_description, lastCheck, prompts,
                   getCount, posts, gi, cleanRuns>>

Next ==
    \/ PromptCredentials
    \/ CheckNameAvailable
    \/ AskRetry
    \/ PromptDescription
    \/ CleanLocalArtifacts
    \/ CreateRemote
    \/ WriteGitignore
    \/ InitLocalRepo
    \/ WriteReadme
    \/ CreateBranch
    \/ Commit
    \/ AddRemote
    \/ Push

Spec == Init /\ [][Next]_vars

(***************************************************************************)
(* The two file-system functions applied on their own to any directory     *)
(***************************************************************************)
InitUnit ==
    /\ InitCommon
    /\ token = "ghp_token"
    /\ pc = "Unit"

\* clean_git_artifacts(), run again and again on the same directory.
UnitClean ==
    /\ pc = "Unit"
    /\ cleanRuns < MaxCleanRuns
    /\ fs' = CleanGitArtifacts(fs)
    /\ cleanRuns' = cleanRuns + 1
    /\ UNCHANGED <<variant, token, templatePresent, helperPresent, remoteRepos, fs0,
                   pc, exitCode, github_username, repo_name, repo_description,
                   lastCheck, prompts, getCount, posts, gitLog, steps, repo, gi>>

\* create_gitignore(project_path), with every answer the prompt can get.
UnitCreateGitignore ==
    /\ pc = "Unit"
    /\ \E answer \in AnswersFor(fs), gitRes \in HelperGitResults(variant, fs, helperPresent) :
        LET r == CreateGitignore(variant, fs, answer, templatePresent, helperPresent, gitRes)
        IN  /\ fs' = r.fs
            /\ gi' = GiRecord(fs, answer, r)
            /\ gitLog' = gitLog \o r.git
    /\ pc' = "UnitDone"
    /\ UNCHANGED <<variant, token, templatePresent, helperPresent, remoteRepos, fs0,
                   exitCode, github_username, repo_name, repo_description, lastCheck,
                   prompts, getCount, posts, steps, repo, cleanRuns>>

NextUnit == UnitClean \/ UnitCreateGitignore

SpecUnit == InitUnit /\ [][NextUnit]_vars

(***************************************************************************)
(* Properties                                                              *)
(***************************************************************************)
Exited == pc \in {"Exited", "Done"}
AllGitOk == \A i \in 1..Len(gitLog) : gitLog[i].ok
AllPostsOk == \A i \in 1..Len(posts) : posts[i].status = 201
Affirmative(answer) == answer \in {"y", "Y"}

\* C1: with GITHUB_TOKEN unset or empty the run ends with exit code 1 before
\* any GET or POST is issued, before any entry of the working directory is
\* created, changed or removed, and before any git command is invoked.
C1_MissingTokenExitsFirst ==
    token \in {TokenUnset, ""} =>
        /\ pc \in {"PromptCredentials", "Exited"}
        /\ pc = "Exited" => exitCode = 1
        /\ getCount = 0
        /\ posts = <<>>
        /\ fs = fs0
        /\ gitLog = <<>>

C1_Witness ==
    token = "" /\ pc = "Exited" /\ exitCode = 1 /\ github_username = "alice"

C3_Original ==
    (pc = "UnitDone" /\ gi.existed) =>
        /\ (gi.wrote \/ fs[GITIGNORE] # gi.before) => Affirmative(gi.answer)
        /\ ~Affirmative(gi.answer) => (fs[GITIGNORE] = gi.before /\ ~gi.raised)

\* C3 as amended: called with an existing .gitignore, create_gitignore writes
\* only on the answer y or Y; on every other answer the file is unchanged, and
\* the call returns without raising unless it is the requests variant with the
\* helper script missing, which raises before the prompt is shown.
C3_Amended ==
    (pc = "UnitDone" /\ gi.existed) =>
        /\ (gi.wrote \/ fs[GITIGNORE] # gi.before) => Affirmative(gi.answer)
        /\ ~Affirmative(gi.answer) =>
            /\ fs[GITIGNORE] = gi.before
            /\ gi.raised <=> (variant = "requests" /\ ~helperPresent)
            /\ gi.raised => ~gi.prompted

C3_Witness ==
    /\ pc = "UnitDone"
    /\ gi.existed
    /\ gi.before = File(Old(GITIGNORE))
    /\ gi.answer = "n"
    /\ gi.prompted
    /\ ~gi.raised
    /\ fs[GITIGNORE] = gi.before

\* The order of the steps as the specification gives it.
StatedOrder ==
    << "PromptCredentials", "CheckNameAvailable", "CreateRemote", "CleanLocalArtifacts",
       "WriteGitignore", "InitLocalRepo", "WriteReadme", "CreateBranch", "Commit",
       "AddRemote", "Push" >>

\* The order of the steps in each script.
CodeOrder(v) ==
    << "PromptCredentials", "CheckNameAvailable", "CleanLocalArtifacts", "CreateRemote",
       "WriteGitignore" >>
    \o (IF v = "httpx" THEN << "WriteReadme", "InitLocalRepo" >>
        ELSE << "InitLocalRepo", "WriteReadme" >>)
    \o << "CreateBranch", "Commit", "AddRemote", "Push" >>

\* C4 as stated: every run that reaches Done performed the steps in the order
\* PromptCredentials, CheckNameAvailable, CreateRemote, CleanLocalArtifacts,
\* WriteGitignore, InitLocalRepo, WriteReadme, CreateBranch, Commit, AddRemote,
\* Push.
C4_Original == pc = "Done" => steps = StatedOrder

\* C4 as amended: every run that reaches Done performed the steps in the order
\* PromptCredentials, CheckNameAvailable, CleanLocalArtifacts, CreateRemote,
\* WriteGitignore, then InitLocalRepo and WriteReadme (requests) or WriteReadme
\* and InitLocalRepo (httpx), then CreateBranch, Commit, AddRemote, Push.
C4_Amended == pc = "Done" => steps = CodeOrder(variant)

C4_Witness == pc = "Done" /\ variant = "httpx" /\ steps = CodeOrder("httpx")

\* C5: a failing step (creation request, .gitignore creation, any git command,
\* those of the helper included) ends the process with exit code 1; the exit
\* code is 0 only if every step succeeded.
C5_ExitZeroOnlyIfAllSucceeded ==
    exitCode = 0 => (AllPostsOk /\ ~gi.raised /\ AllGitOk)

\* What the end-to-end scenario promises of the final state.
FinalStateOfDemo ==
    /\ pc = "Done"
    /\ exitCode = 0
    /\ fs[GIT] = Dir
    /\ repo.exists
    /\ IsFile(fs, README)
    /\ Len(fs[README].data) >= 2
    /\ fs[README].data[1] = "# "
    /\ fs[README].data[2] = "demo"
    /\ fs[GITIGNORE] = File(GitignoreSource(variant))
    /\ repo.commits = 1
    /\ repo.origin = <<"git@github.com:", github_username, "/", "demo", ".git">>

\* The scenario: empty directory, credential set, name demo, every remote and
\* git operation succeeding, and the run over.
DemoScenario ==
    /\ fs0 = EmptyDir
    /\ ~(token \in {TokenUnset, ""})
    /\ repo_name = "demo"
    /\ lastCheck # "raised"
    /\ AllPostsOk
    /\ AllGitOk
    /\ Exited

C7_CleanIdempotent ==
    [][(pc = "Unit" /\ cleanRuns >= 1 /\ cleanRuns' = cleanRuns + 1) => fs' = fs]_vars

C7_Witness ==
    /\ pc = "Unit"
    /\ cleanRuns = 2
    /\ fs0[GIT] = Dir
    /\ IsFile(fs0, GITATTRIBUTES)
    /\ IsDir(fs0, GITHUB_DIR)
    /\ fs = [fs0 EXCEPT ![GIT] = Absent, ![GITIGNORE] = IF IsFile(fs0, GITIGNORE)
                                                       THEN Absent ELSE @,
                        ![GITATTRIBUTES] = Absent]

\* C8 as stated: for a name the remote host does not hold the check returns
\* false at the first prompt, and the run issues exactly one creation request,
\* for that name with private=false, which succeeds; no run issues more than
\* one creation request.
C8_Original ==
    /\ repo_name \notin RemoteAtStart => lastCheck # "exists"
    /\ Len(posts) <= 1
    /\ (posts # <<>> /\ posts[1].data.name \notin RemoteAtStart) =>
        /\ posts[1].data.name = repo_name
        /\ posts[1].data.private = FALSE
        /\ posts[1].status = 201

\* C8 as amended: for a name the remote host does not hold the check never
\* reports it present and no re-prompt follows a check that returned; the run
\* issues at most one creation request, for that name with private=false; the
\* request can fail (rejected credential, invalid name such as the empty one,
\* transport failure), and then the run ends with exit code 1; no run issues
\* more than one creation request.
C8_Amended ==
    /\ repo_name \notin RemoteAtStart =>
        /\ lastCheck # "exists"
        /\ lastCheck = "free" => pc \notin {"AskRetry", "PromptName"}
    /\ Len(posts) <= 1
    /\ posts # <<>> =>
        /\ posts[1].data.name = repo_name
        /\ posts[1].data.private = FALSE
        /\ lastCheck = "free"
        /\ posts[1].status # 201 => (pc = "Exited" /\ exitCode = 1)
        /\ posts[1].status = 201 => (repo_name # "" /\ repo_name \in remoteRepos)

C8_Witness ==
    /\ prompts = 1
    /\ Len(posts) = 1
    /\ posts[1].data = [name |-> "demo", description |-> "A demo", private |-> FALSE]
    /\ posts[1].status = 201

\* C9: the name of a repository request is non-empty: whenever the creation
\* request is issued or the local git artifacts are cleaned, the name entered
\* is not the empty string; an empty name never leaves the name selection.
C9_NameNonEmpty ==
    /\ \A i \in 1..Len(posts) : posts[i].data.name # ""
    /\ pc \notin {"PromptCredentials", "PromptName", "AskRetry", "Exited"} => repo_name # ""

\* C10: over a whole run, a .gitignore present when the run started is neither
\* removed nor changed unless the user answered the overwrite prompt with yes.
C10_GitignoreKept ==
    Exists(fs0, GITIGNORE) =>
        \/ fs[GITIGNORE] = fs0[GITIGNORE]
        \/ gi.prompted /\ Affirmative(gi.answer)

====
